---------------------------- MODULE Spec2Model ----------------------------
(***************************************************************************)
(* HalalBot retrieval and ranking engine: the document store and the       *)
(* search of services/search_service.py, the feedback ledger of            *)
(* core/feedback_utils.py and the query filter of core/query_blocking.py.  *)
(*                                                                         *)
(* Scores are integers in hundredths (0.05 is 5, 0.3 is 30, 1.0 is 100).   *)
(* A text is a record that carries what the code reads of a string: its    *)
(* whitespace-normalised content (the identity its SHA-256 stands for),    *)
(* whether the raw string differs from the normalised one, its trimmed     *)
(* length, and the content and length clean_text leaves.  An embedding is  *)
(* a vector of `dim` numbers whose entries after the leading ones listed   *)
(* in `v` are zero.                                                        *)
(***************************************************************************)
EXTENDS Integers, Sequences, FiniteSets, TLC

VARIABLES
    documents,        \* rows of the documents table
    feedback,         \* rows of the feedback table, in insertion order
    feedbackLog,      \* lines of feedback_log.jsonl
    adjustments,      \* content of feedback_adjustments.json (hash -> votes)
    blockedFile,      \* lines of blocked_queries.txt
    blocked_phrases,  \* QueryFilter._blocked_phrases (the cache)
    custom_rules,     \* QueryFilter._custom_rules
    ret,              \* what the last call returned, with its arguments
    blockedLog,       \* lines of blocked_queries_log.jsonl (the audit log)
    calls,            \* calls in progress in concurrent processes
    users,            \* content of users.json (email -> account)
    invite_codes      \* content of invite_codes.json (code -> entry)

vars == <<documents, feedback, feedbackLog, adjustments, blockedFile,
          blocked_phrases, custom_rules, ret, blockedLog, calls,
          users, invite_codes>>

storeVars == <<documents, feedback, feedbackLog, adjustments>>
filterVars == <<blockedFile, blocked_phrases, custom_rules>>
accountVars == <<users, invite_codes>>
auxVars == <<blockedLog, calls, accountVars>>

\* users.json and invite_codes.json before anything was saved: load_json
\* returns {} for a file that does not exist
NoUsers == <<>>
NoCodes == <<>>

-----------------------------------------------------------------------------
(* Bounds of the model *)

MaxDocs == 3
LedgerDownvotes == 5
MaxVotes == 2
MaxPhrases == 2
MaxSetups == 2
MaxAudit == 2
NumWriters == 2

(* Program constants *)

EMBEDDING_DIM == 384
MIN_TEXT_LEN == 20
UNKNOWN_PRIORITY == 5
PENALTY_PER_DOWNVOTE == 2
MAX_PENALTY == 30
NoDocumentId == 0

None == "None"

\* QueryFilter._blocked_phrases before the first load (None in the source)
NotLoaded == [loaded |-> FALSE, phrases |-> <<>>]

Min(a, b) == IF a <= b THEN a ELSE b
Max(a, b) == IF a >= b THEN a ELSE b

-----------------------------------------------------------------------------
(* Texts *)

Text(content, padded, trimLen, cleaned, cleanLen) ==
    [null |-> FALSE, content |-> content, padded |-> padded,
     trimLen |-> trimLen, cleaned |-> cleaned, cleanLen |-> cleanLen]

NullText == [null |-> TRUE, content |-> "", padded |-> FALSE,
             trimLen |-> 0, cleaned |-> "", cleanLen |-> 0]

EmptyText == Text("", FALSE, 0, "", 0)

\* `not text`: None or the empty string
Falsy(text) == text.null \/ (text.trimLen = 0 /\ ~text.padded)

\* clean_text(text): the cleaned string, itself trimmed
clean_text(text) ==
    IF Falsy(text) THEN EmptyText
    ELSE Text(text.cleaned, FALSE, text.cleanLen, text.cleaned, text.cleanLen)

\* feedback_utils.hash_text: "" for no text, else SHA-256 of the text with its
\* whitespace normalised, which the normalised content stands for
hash_text(text) == IF Falsy(text) THEN "" ELSE text.content

-----------------------------------------------------------------------------
(* Embeddings and the similarity scorer *)

Embedding(dim, v) == [null |-> FALSE, dim |-> dim, v |-> v]
NullEmbedding == [null |-> TRUE, dim |-> 0, v |-> <<>>]

RECURSIVE Dot(_, _)
Dot(a, b) ==
    IF a = <<>> \/ b = <<>> THEN 0
    ELSE Head(a) * Head(b) + Dot(Tail(a), Tail(b))

ISqrt(x) == CHOOSE r \in 0..100 : r * r <= x /\ (r + 1) * (r + 1) > x

\* the normalised similarity computed without the zero-norm guard
cosine_similarity_midpoint(vec1, vec2) ==
    LET n1 == Dot(vec1.v, vec1.v)
        n2 == Dot(vec2.v, vec2.v)
        d  == Dot(vec1.v, vec2.v)
        cosine_sim == IF n1 = 0 \/ n2 = 0 \/ vec1.dim # vec2.dim THEN 0
                      ELSE IF d >= 0 THEN ISqrt((10000 * d * d) \div (n1 * n2))
                      ELSE 0 - ISqrt((10000 * d * d) \div (n1 * n2))
    IN  (cosine_sim + 100) \div 2

\* DatabaseSearchService.cosine_similarity, in hundredths, truncated
cosine_similarity(vec1, vec2) ==
    LET n1 == Dot(vec1.v, vec1.v)
        n2 == Dot(vec2.v, vec2.v)
        d  == Dot(vec1.v, vec2.v)
    IN  IF vec1.dim # vec2.dim THEN 0          \* np.dot raises, caught: 0.0
        ELSE IF n1 = 0 \/ n2 = 0 THEN 0
        ELSE IF d >= 0 THEN ISqrt((10000 * d * d) \div (n1 * n2))
        ELSE 0 - ISqrt((10000 * d * d) \div (n1 * n2))


-----------------------------------------------------------------------------
(* The document store *)

Doc(id, category, embedding, text) ==
    [id |-> id, category |-> category, embedding |-> embedding, text |-> text]

LongText(c) == Text(c, FALSE, 40, c, 40)

\* The rows the corpus is drawn from.  Against the query embedding <<1, 0>>
\* the similarities are 44, 89, 70, 94, 100, 89, -70 and (not scored) 100.
DocPool ==
    { Doc(1, "quran",  Embedding(EMBEDDING_DIM, <<1, 2>>), LongText("c1")),
      Doc(2, "fatwa",  Embedding(EMBEDDING_DIM, <<2, 1>>), LongText("c2")),
      Doc(4, "fatwa",  Embedding(EMBEDDING_DIM, <<1, 1>>), LongText("c4")),
      \* a short but non-empty text (13 characters)
      Doc(5, "hadith", Embedding(EMBEDDING_DIM, <<3, 1>>),
          Text("c5", FALSE, 13, "c5", 13)),
      \* a text that is mostly a URL: 30 characters, 10 after cleaning
      Doc(6, "quran",  Embedding(EMBEDDING_DIM, <<1, 0>>),
          Text("c6", TRUE, 30, "c6x", 10)),
      \* an empty category, and the same similarity as document 2
      Doc(7, "",       Embedding(EMBEDDING_DIM, <<2, 1>>), LongText("c7")),
      \* a category outside the priority map, pointing away from the query
      Doc(8, "tafsir", Embedding(EMBEDDING_DIM, <<-1, 1>>), LongText("c8")),
      \* an embedding of the wrong dimensionality
      Doc(10, "hadith", Embedding(EMBEDDING_DIM - 1, <<1, 0>>),
          LongText("c10")) }

Corpora == { S \in SUBSET DocPool : Cardinality(S) <= MaxDocs }

\* The Embedding Provider: model.encode([query])[0]
QueryEmbeddings == { Embedding(EMBEDDING_DIM, <<1, 0>>) }

TopKs == {-1, 0, 1, 3}
MinScores == {5, 70, 95}
SourceFilters == {None, "fatwa-only", "scripture"}
Faults == {"none", "db_connect", "encode", "execute_query"}

filter_mapping ==
    ("quran-only" :> "quran") @@ ("hadith-only" :> "hadith") @@
    ("fatwa-only" :> "fatwa") @@ ("zakat-only" :> "zakat") @@
    ("other-only" :> "other")

\* a SELECT that leaves the category clause out
build_search_query_uncategorised(source_filter) ==
    { d \in documents :
        /\ ~d.text.null
        /\ ~d.embedding.null
        /\ d.text.trimLen > MIN_TEXT_LEN
        /\ d.embedding.dim = EMBEDDING_DIM }

\* build_search_query and its execution: the rows the SELECT returns
build_search_query(source_filter) ==
    { d \in documents :
        /\ ~d.text.null
        /\ ~d.embedding.null
        /\ d.text.trimLen > MIN_TEXT_LEN
        /\ d.embedding.dim = EMBEDDING_DIM
        /\ (source_filter # None /\ source_filter \in DOMAIN filter_mapping)
              => d.category = filter_mapping[source_filter] }

\* The orders in which the store may return a set of rows (no ORDER BY)
Orders(S) ==
    { f \in [1..Cardinality(S) -> S] :
        \A i, j \in 1..Cardinality(S) : f[i] = f[j] => i = j }

\* a store that stops after its first two rows
execute_query_limit(source_filter) ==
    { SubSeq(f, 1, IF Len(f) < 2 THEN Len(f) ELSE 2) :
        f \in Orders(build_search_query(source_filter)) }

\* db.execute_query(sql_query, params, fetch=True): every row the SELECT
\* matches (fetchall), in some order
execute_query(source_filter) == Orders(build_search_query(source_filter))

priority_map ==
    ("quran" :> 0) @@ ("hadith" :> 1) @@ ("fatwa" :> 2) @@ ("zakat" :> 3) @@
    ("other" :> 4)

calculate_category_priority(category) ==
    IF category \in DOMAIN priority_map THEN priority_map[category]
    ELSE UNKNOWN_PRIORITY

-----------------------------------------------------------------------------
(* The feedback ledger: core/feedback_utils.py *)

FeedbackRow(document_id, vote, user) ==
    [document_id |-> document_id, feedback_type |-> vote, user |-> user]

LogLine(text_hash, vote, user) ==
    [text_hash |-> text_hash, vote |-> vote, user |-> user]

Votes(up, down) == [found |-> TRUE, thumbs_up |-> up, thumbs_down |-> down]

\* adj.get(text_hash) of a hash the file does not hold: None
NoVotes == [found |-> FALSE, thumbs_up |-> 0, thumbs_down |-> 0]

NoAdjustments == [h \in {} |-> Votes(0, 0)]

\* get_document_id: the ids the SELECT ... LIMIT 1 may return.  A row matches
\* when the SHA-256 of its raw text is the hash, that is when its raw text is
\* already whitespace-normalised and has that content.
get_document_id(text_hash) ==
    LET ids == { d.id : d \in { e \in documents :
                     ~e.text.null /\ ~e.text.padded
                     /\ e.text.content = text_hash } }
    IN  IF text_hash = "" \/ ids = {} THEN {NoDocumentId} ELSE ids

CountRows(document_id, vote) ==
    Cardinality({ i \in DOMAIN feedback :
                    /\ feedback[i].document_id = document_id
                    /\ feedback[i].feedback_type = vote })

\* get_feedback_stats_from_database, for the id get_document_id returned;
\* db_up is FALSE when the database is not available or the query fails
get_feedback_stats_from_database(document_id, db_up) ==
    IF ~db_up \/ document_id = NoDocumentId THEN Votes(0, 0)
    ELSE Votes(CountRows(document_id, "up"), CountRows(document_id, "down"))

load_adjustments == adjustments

get_vote_summary(text_hash, document_id, db_up) ==
    LET stats == get_feedback_stats_from_database(document_id, db_up)
    IN  IF text_hash = "" THEN NoVotes
        ELSE IF db_up /\ (stats.thumbs_up > 0 \/ stats.thumbs_down > 0)
        THEN stats
        ELSE IF text_hash \in DOMAIN load_adjustments
        THEN load_adjustments[text_hash]
        ELSE NoVotes

\* a penalty that grows without a ceiling
get_score_penalty_uncapped(text_hash, document_id, db_up) ==
    LET votes == get_vote_summary(text_hash, document_id, db_up)
    IN  IF text_hash = "" \/ ~votes.found THEN 0
        ELSE PENALTY_PER_DOWNVOTE * votes.thumbs_down

get_score_penalty(text_hash, document_id, db_up) ==
    LET votes == get_vote_summary(text_hash, document_id, db_up)
    IN  IF text_hash = "" THEN 0
        ELSE IF ~votes.found THEN 0
        ELSE Min(PENALTY_PER_DOWNVOTE * votes.thumbs_down, MAX_PENALTY)

\* an adjustment that is not floored at zero
get_adjusted_score_nofloor(base_score, text, document_id, db_up) ==
    IF Falsy(text) THEN base_score
    ELSE base_score - get_score_penalty(hash_text(text), document_id, db_up)

get_adjusted_score(base_score, text, document_id, db_up) ==
    IF Falsy(text) THEN base_score
    ELSE Max(0, base_score
                 - get_score_penalty(hash_text(text), document_id, db_up))

-----------------------------------------------------------------------------
(* DatabaseSearchService.search *)

\* the loop's validation of the embedding: a list of 384 numbers
ValidEmbedding(doc) ==
    ~doc.embedding.null /\ doc.embedding.dim = EMBEDDING_DIM

\* the result object the loop builds for a document
Result(doc, similarity) ==
    [id |-> doc.id,
     text |-> clean_text(doc.text),
     category |-> IF doc.category = "" THEN "other" ELSE doc.category,
     score |-> similarity,
     base_score |-> similarity]

\* a loop that drops a document scoring exactly min_score
Kept_above_threshold(doc, query_embedding, min_score) ==
    /\ ValidEmbedding(doc)
    /\ cosine_similarity(query_embedding, doc.embedding) > min_score
    /\ clean_text(doc.text).trimLen >= MIN_TEXT_LEN

\* whether the loop appends a result for the document
Kept(doc, query_embedding, min_score) ==
    /\ ValidEmbedding(doc)
    /\ cosine_similarity(query_embedding, doc.embedding) >= min_score
    /\ clean_text(doc.text).trimLen >= MIN_TEXT_LEN

\* scored_results after the loop over the rows, in the rows' order
RECURSIVE ScoredResults(_, _, _)
ScoredResults(rows, query_embedding, min_score) ==
    IF rows = <<>> THEN <<>>
    ELSE LET doc == Head(rows)
             rest == ScoredResults(Tail(rows), query_embedding, min_score)
         IN  IF Kept(doc, query_embedding, min_score)
             THEN <<Result(doc,
                     cosine_similarity(query_embedding, doc.embedding))>> \o rest
             ELSE rest

\* a sort by score alone
KeyLess_score_only(a, b) == (0 - a.score) < (0 - b.score)

\* the sort key (category priority, -score), compared as Python compares tuples
KeyLess(a, b) ==
    LET pa == calculate_category_priority(a.category)
        pb == calculate_category_priority(b.category)
    IN  pa < pb \/ (pa = pb /\ (0 - a.score) < (0 - b.score))

RECURSIVE InsertSorted(_, _)
InsertSorted(x, s) ==
    IF s = <<>> THEN <<x>>
    ELSE IF KeyLess(x, Head(s)) THEN <<x>> \o s
    ELSE <<Head(s)>> \o InsertSorted(x, Tail(s))

\* list.sort(key=...): a stable sort
RECURSIVE SortResults(_)
SortResults(s) ==
    IF s = <<>> THEN <<>>
    ELSE InsertSorted(s[Len(s)], SortResults(SubSeq(s, 1, Len(s) - 1)))

\* scored_results[:top_k]
SliceTo(s, top_k) ==
    IF top_k >= 0 THEN SubSeq(s, 1, Min(top_k, Len(s)))
    ELSE SubSeq(s, 1, Max(0, Len(s) + top_k))

Returned(results, scored) ==
    [raised |-> FALSE, results |-> results, scored |-> scored]

Raised == [raised |-> TRUE, results |-> <<>>, scored |-> {}]

\* a search without its except clause
search_unguarded(query_embedding, top_k, min_score, rows, fault) ==
    IF fault \in {"encode", "execute_query"}
    THEN Raised
    ELSE Returned(
           SliceTo(SortResults(ScoredResults(rows, query_embedding, min_score)),
                   top_k),
           { rows[i].id : i \in { j \in 1..Len(rows) : ValidEmbedding(rows[j]) } })

\* search: rows is what execute_query returned, fault what failed, if anything
search(query_embedding, top_k, min_score, rows, fault) ==
    IF fault \in {"encode", "execute_query"}
    THEN Returned(<<>>, {})                       \* except Exception: return []
    ELSE Returned(
           SliceTo(SortResults(ScoredResults(rows, query_embedding, min_score)),
                   top_k),
           { rows[i].id : i \in { j \in 1..Len(rows) : ValidEmbedding(rows[j]) } })

\* search_faiss: builds the service, then searches
search_faiss(query_embedding, top_k, min_score, rows, fault) ==
    IF fault \in {"model_load", "db_connect"}
    THEN Returned(<<>>, {})                       \* except Exception: return []
    ELSE search(query_embedding, top_k, min_score, rows, fault)

\* One retrieval request: the rows come back in any order, unless a fault
\* keeps the query from running
Search(query_embedding, top_k, min_score, source_filter, fault) ==
    /\ ret.op = "none"
    /\ \E rows \in (IF fault = "none" THEN execute_query(source_filter)
                    ELSE {<<>>}) :
         LET out == search_faiss(query_embedding, top_k, min_score, rows, fault)
         IN  ret' = [op |-> "search",
                     query_embedding |-> query_embedding,
                     top_k |-> top_k,
                     min_score |-> min_score,
                     source_filter |-> source_filter,
                     fault |-> fault,
                     rows |-> [i \in 1..Len(rows) |-> rows[i].id],
                     raised |-> out.raised,
                     results |-> out.results,
                     scored |-> out.scored]
    /\ UNCHANGED <<storeVars, filterVars, auxVars>>

\* The caller has consumed what the call returned
Respond ==
    /\ ret.op # "none"
    /\ ret' = [op |-> "none"]
    /\ UNCHANGED <<storeVars, filterVars, auxVars>>

NoCall == [op |-> "none"]

InitSearch ==
    /\ documents \in Corpora
    /\ \E n \in {0, LedgerDownvotes} :
         /\ feedback = [i \in 1..n |-> FeedbackRow(2, "down", "u1")]
         /\ feedbackLog = [i \in 1..n |-> LogLine("c2", "down", "u1")]
         /\ adjustments = IF n = 0 THEN NoAdjustments
                          ELSE ("c2" :> Votes(0, n))
    /\ blockedFile = <<>>
    /\ blocked_phrases = NotLoaded
    /\ custom_rules = <<>>
    /\ ret = NoCall
    /\ blockedLog = <<>>
    /\ calls = <<>>
    /\ users = NoUsers
    /\ invite_codes = NoCodes

NextSearch ==
    \/ \E qe \in QueryEmbeddings, top_k \in TopKs, min_score \in MinScores,
          source_filter \in SourceFilters, fault \in Faults :
           Search(qe, top_k, min_score, source_filter, fault)
    \/ Respond

SpecSearch == InitSearch /\ [][NextSearch]_vars

-----------------------------------------------------------------------------
(* Recording and reading feedback *)

BACKUP_ENABLED == TRUE

\* the vote counted in a loaded copy of the adjustments
CountVote(adj, text_hash, vote) ==
    LET old == IF text_hash \in DOMAIN adj THEN adj[text_hash] ELSE Votes(0, 0)
        new == IF vote = "up" THEN Votes(old.thumbs_up + 1, old.thumbs_down)
               ELSE IF vote = "down"
               THEN Votes(old.thumbs_up, old.thumbs_down + 1)
               ELSE old
    IN  (text_hash :> new) @@ adj

\* update_json_adjustments: load, count the vote, save
update_json_adjustments(text_hash, vote) ==
    CountVote(load_adjustments, text_hash, vote)

\* a backup log opened for writing instead of appending
log_feedback_to_json_truncating(text_hash, vote, user_email) ==
    <<LogLine(text_hash, vote, user_email)>>

\* log_feedback_to_json: feedback_log.jsonl after the append
log_feedback_to_json(text_hash, vote, user_email) ==
    Append(feedbackLog, LogLine(text_hash, vote, user_email))

\* the votes this model's submitter has cast, in either store
Cast(rows, user) == Cardinality({ i \in DOMAIN rows : rows[i].user = user })

\* log_feedback(query, text, vote, user_email).  db_ok: the database is
\* available and the INSERT succeeds; fs_ok: the two backup files can be
\* written.
LogFeedback(text, vote, user_email, db_ok, fs_ok) ==
    /\ ret.op = "none"
    /\ Cast(feedback, user_email) < MaxVotes
    /\ Cast(feedbackLog, user_email) < MaxVotes
    /\ IF Falsy(text) \/ vote \notin {"up", "down"}
       THEN /\ ret' = [op |-> "log_feedback", text |-> text, vote |-> vote,
                       value |-> FALSE]
            /\ UNCHANGED <<feedback, feedbackLog, adjustments>>
       ELSE LET text_hash == hash_text(text)
            IN  /\ IF db_ok
                   THEN \E document_id \in get_document_id(text_hash) :
                          feedback' = Append(feedback,
                              FeedbackRow(document_id, vote, user_email))
                   ELSE UNCHANGED feedback
                /\ IF BACKUP_ENABLED /\ fs_ok
                   THEN /\ feedbackLog' = log_feedback_to_json(text_hash, vote,
                                                                user_email)
                        /\ adjustments' = update_json_adjustments(text_hash, vote)
                   ELSE UNCHANGED <<feedbackLog, adjustments>>
                /\ ret' = [op |-> "log_feedback", text |-> text, vote |-> vote,
                           value |-> (db_ok \/ BACKUP_ENABLED)]
    /\ UNCHANGED <<documents, filterVars, auxVars>>

\* a call of get_score_penalty; db_up: the database answers
GetScorePenalty(text_hash, db_up) ==
    /\ ret.op = "none"
    /\ \E document_id \in get_document_id(text_hash) :
         ret' = [op |-> "get_score_penalty",
                 text_hash |-> text_hash,
                 document_id |-> document_id,
                 db_up |-> db_up,
                 value |-> get_score_penalty(text_hash, document_id, db_up)]
    /\ UNCHANGED <<storeVars, filterVars, auxVars>>

\* a call of get_adjusted_score
GetAdjustedScore(base_score, text, db_up) ==
    /\ ret.op = "none"
    /\ \E document_id \in get_document_id(hash_text(text)) :
         ret' = [op |-> "get_adjusted_score",
                 base_score |-> base_score,
                 text |-> text,
                 document_id |-> document_id,
                 db_up |-> db_up,
                 value |-> get_adjusted_score(base_score, text, document_id,
                                              db_up)]
    /\ UNCHANGED <<storeVars, filterVars, auxVars>>

\* cleanup_old_feedback(days_old): DELETE ... WHERE timestamp < NOW() -
\* days_old.  Rows are stamped NOW() on insertion, so the rows older than the
\* cut-off are the first rows of the table; cut says how many they are.
CleanupOldFeedback(cut, db_up) ==
    LET older == CASE cut = "none" -> 0
                   [] cut = "all_but_newest" -> Max(0, Len(feedback) - 1)
                   [] cut = "all" -> Len(feedback)
    IN  /\ ret.op = "none"
        /\ IF db_up
           THEN /\ feedback' = SubSeq(feedback, older + 1, Len(feedback))
                /\ ret' = [op |-> "cleanup_old_feedback", value |-> older]
           ELSE /\ UNCHANGED feedback
                /\ ret' = [op |-> "cleanup_old_feedback", value |-> 0]
        /\ UNCHANGED <<documents, feedbackLog, adjustments, filterVars, auxVars>>

\* the hashes of feedback_adjustments.json that carry a penalty, with it
Penalties(db_up) ==
    LET ids == { d.id : d \in documents } \cup {NoDocumentId}
        penalised ==
            { hd \in (DOMAIN load_adjustments) \X ids :
                /\ hd[2] \in get_document_id(hd[1])
                /\ get_score_penalty(hd[1], hd[2], db_up) > 0 }
    IN  { [text_hash |-> hd[1],
           penalty |-> get_score_penalty(hd[1], hd[2], db_up),
           downvotes |-> load_adjustments[hd[1]].thumbs_down,
           upvotes |-> load_adjustments[hd[1]].thumbs_up] : hd \in penalised }

\* get_feedback_analytics()
get_feedback_analytics(db_up) ==
    [total_feedback_count |-> IF db_up THEN Len(feedback) ELSE 0,
     upvotes |-> IF db_up
                 THEN Cardinality({ i \in DOMAIN feedback : feedback[i].feedback_type = "up" })
                 ELSE 0,
     downvotes |-> IF db_up
                   THEN Cardinality({ i \in DOMAIN feedback : feedback[i].feedback_type = "down" })
                   ELSE 0,
     documents_with_feedback |-> IF db_up THEN Cardinality(DOMAIN load_adjustments)
                                 ELSE 0,
     top_penalized_documents |-> IF db_up THEN Penalties(db_up) ELSE {}]

GetFeedbackAnalytics(db_up) ==
    /\ ret.op = "none"
    /\ ret' = [op |-> "get_feedback_analytics",
               value |-> get_feedback_analytics(db_up)]
    /\ UNCHANGED <<storeVars, filterVars, auxVars>>

\* export_feedback_data(output_file): reads both stores and writes the
\* export file; fs_ok: the export file can be written
ExportFeedbackData(db_up, fs_ok) ==
    /\ ret.op = "none"
    /\ ret' = [op |-> "export_feedback_data",
               exported |-> IF db_up /\ fs_ok THEN Len(feedback) ELSE 0,
               value |-> (db_up /\ fs_ok)]
    /\ UNCHANGED <<storeVars, filterVars, auxVars>>

\* The texts feedback is given on: a stored text, the cleaned form of a text
\* that is stored uncleaned, and no text
FeedbackTexts == { LongText("c1"), Text("c6x", FALSE, 10, "c6x", 10), EmptyText }
VoteValues == {"up", "down", "maybe"}
Submitter == "u1"
Hashes == { hash_text(t) : t \in FeedbackTexts }

\* Similarities the scorer produces for the pool, and zero
BaseScores == {-70, 0, 5, 44, 100}

\* Downvotes other submitters left earlier on the first text: <<rows in the
\* feedback table, count in feedback_adjustments.json>>
PriorLedgers ==
    { <<n, n>> : n \in {0, LedgerDownvotes, 20, 100} }
        \cup { <<0, LedgerDownvotes>> }

InitFeedback ==
    /\ documents = { d \in DocPool : d.id \in {1, 2, 6} }
    /\ \E prior \in PriorLedgers :
         /\ feedback = [i \in 1..prior[1] |-> FeedbackRow(1, "down", "u0")]
         /\ feedbackLog = [i \in 1..prior[2] |-> LogLine("c1", "down", "u0")]
         /\ adjustments = IF prior[2] = 0 THEN NoAdjustments
                          ELSE ("c1" :> Votes(0, prior[2]))
    /\ blockedFile = <<>>
    /\ blocked_phrases = NotLoaded
    /\ custom_rules = <<>>
    /\ ret = NoCall
    /\ blockedLog = <<>>
    /\ calls = <<>>
    /\ users = NoUsers
    /\ invite_codes = NoCodes

NextFeedback ==
    \/ \E text \in FeedbackTexts, vote \in VoteValues, db_ok, fs_ok \in BOOLEAN :
         LogFeedback(text, vote, Submitter, db_ok, fs_ok)
    \/ \E text_hash \in Hashes, db_up \in BOOLEAN :
         GetScorePenalty(text_hash, db_up)
    \/ \E base_score \in BaseScores, text \in FeedbackTexts, db_up \in BOOLEAN :
         GetAdjustedScore(base_score, text, db_up)
    \/ \E cut \in {"none", "all_but_newest", "all"}, db_up \in BOOLEAN :
         CleanupOldFeedback(cut, db_up)
    \/ \E db_up \in BOOLEAN : GetFeedbackAnalytics(db_up)
    \/ \E db_up, fs_ok \in BOOLEAN : ExportFeedbackData(db_up, fs_ok)
    \/ Respond

SpecFeedback == InitFeedback /\ [][NextFeedback]_vars

-----------------------------------------------------------------------------
(* Claims about retrieval, checked under SpecSearch *)

Searched == ret.op = "search"
Completed == Searched /\ ret.fault = "none"

DocById(id) == CHOOSE d \in documents : d.id = id

Similarity(d) == cosine_similarity(ret.query_embedding, d.embedding)

Priority(d) ==
    calculate_category_priority(IF d.category = "" THEN "other"
                                ELSE d.category)

\* the documents the last search kept after its threshold and text checks
KeptDocs ==
    { d \in build_search_query(ret.source_filter) :
        Kept(d, ret.query_embedding, ret.min_score) }

\* C1: every result of a search carries score = max(0, similarity - penalty
\* of its document's content-hash), and no result's adjusted score is below
\* min_score.
C1_ScoreIsAdjusted ==
    Completed =>
      \A i \in DOMAIN ret.results :
        LET r == ret.results[i]
            h == hash_text(DocById(r.id).text)
        IN  \A did \in get_document_id(h) :
              /\ r.score = Max(0, r.base_score - get_score_penalty(h, did, TRUE))
              /\ Max(0, r.base_score - get_score_penalty(h, did, TRUE))
                   >= ret.min_score

\* C4: in every returned list, for A before B, priority(A) <= priority(B),
\* and A.score >= B.score when the two have the same category.
C4_RankedByCategoryThenScore ==
    Searched =>
      \A i, j \in DOMAIN ret.results :
        i < j =>
          LET a == ret.results[i]
              b == ret.results[j]
          IN  /\ calculate_category_priority(a.category)
                   <= calculate_category_priority(b.category)
              /\ a.category = b.category => a.score >= b.score

\* a scripture result ranks before a ruling result of higher score, which
\* ranks before a ruling result of lower score
C4_Witness ==
    /\ Searched
    /\ Len(ret.results) = 3
    /\ ret.results[1].category = "quran"
    /\ ret.results[2].category = "fatwa"
    /\ ret.results[3].category = "fatwa"
    /\ ret.results[1].score < ret.results[2].score
    /\ ret.results[2].score > ret.results[3].score

\* the single best match among the stored documents that qualify for the
\* request: the filter's category, a text, an embedding the scorer accepts
Qualifying ==
    { d \in documents :
        /\ ~d.text.null /\ d.text.trimLen > 0
        /\ ValidEmbedding(d)
        /\ (ret.source_filter \in DOMAIN filter_mapping
              => d.category = filter_mapping[ret.source_filter]) }

SingleBest(d, S) == d \in S /\ \A e \in S \ {d} : Similarity(e) < Similarity(d)

C7_FailSoft ==
    Searched =>
      /\ ~ret.raised
      /\ ret.fault # "none" => ret.results = <<>>
      /\ KeptDocs = {} => ret.results = <<>>

\* the query could not be encoded although the store holds matches
C7_Witness ==
    /\ Searched
    /\ ret.fault \in {"encode", "execute_query"}
    /\ KeptDocs # {}
    /\ ~ret.raised
    /\ ret.results = <<>>

\* C8: a request with top_k <= 0 is rejected with an error raised to the
\* caller and yields no result list.
C8_NonPositiveTopKRejected ==
    (Completed /\ ret.top_k <= 0) => ret.raised

-----------------------------------------------------------------------------
(* Claims about the feedback penalty, checked under SpecFeedback *)

\* the downvote count the ledger's aggregate reports for a hash: the feedback
\* table's when it holds any vote for the hash's document, else the backup's
DownvoteCount(text_hash, document_id, db_up) ==
    LET ups   == CountRows(document_id, "up")
        downs == CountRows(document_id, "down")
    IN  IF text_hash = "" THEN 0
        ELSE IF db_up /\ document_id # NoDocumentId /\ ups + downs > 0
        THEN downs
        ELSE IF text_hash \in DOMAIN adjustments
        THEN adjustments[text_hash].thumbs_down
        ELSE 0

\* C2 as stated: for every base score the scorer can produce and every
\* text, 0 <= get_adjusted_score(base, text) <= base.
C2_AdjustedWithinZeroAndBase ==
    ret.op = "get_adjusted_score" =>
      (0 <= ret.value /\ ret.value <= ret.base_score)

\* What get_adjusted_score does guarantee: for a base score >= 0,
\* 0 <= adjusted <= base; for a negative base score the result is 0 (above
\* base) when the text is not empty and base itself (below zero) when it is.
C2_AdjustedWithinZeroAndNonNegativeBase ==
    ret.op = "get_adjusted_score" =>
      /\ ret.base_score >= 0 => (0 <= ret.value /\ ret.value <= ret.base_score)
      /\ ret.base_score < 0 =>
           ret.value = (IF Falsy(ret.text) THEN ret.base_score ELSE 0)

\* a positive base score smaller than the penalty is floored at zero
C2_Witness ==
    /\ ret.op = "get_adjusted_score"
    /\ ret.base_score > 0
    /\ ret.value = 0
    /\ get_score_penalty(hash_text(ret.text), ret.document_id, ret.db_up)
         > ret.base_score

\* C3: the penalty of a hash is min(0.02 x downvotes, 0.3): never above 0.3,
\* non-decreasing in the downvote count, 0.1 for 5 downvotes and 0.3 for 20
\* and for 100.
C3_PenaltyIsCappedLinear ==
    ret.op = "get_score_penalty" =>
      LET n == DownvoteCount(ret.text_hash, ret.document_id, ret.db_up)
      IN  /\ ret.value = Min(PENALTY_PER_DOWNVOTE * n, MAX_PENALTY)
          /\ ret.value <= MAX_PENALTY
          /\ n = 5 => ret.value = 10
          /\ n \in {20, 100} => ret.value = 30
          /\ \A h \in Hashes : \A did \in get_document_id(h) :
               DownvoteCount(h, did, ret.db_up) <= n
                 => get_score_penalty(h, did, ret.db_up) <= ret.value

\* a hash with 100 downvotes has the same penalty as 20 downvotes give
C3_Witness ==
    /\ ret.op = "get_score_penalty"
    /\ DownvoteCount(ret.text_hash, ret.document_id, ret.db_up) >= 100
    /\ ret.value = MAX_PENALTY

-----------------------------------------------------------------------------
(* Strings: sequences of characters.  "Sigma" is the Greek capital sigma,
   "sigma" its small form and "fsigma" the small final form. *)

Upper == {"A", "H", "I", "Sigma"}
Cased == Upper \cup {"a", "h", "i", "sigma", "fsigma"}

ToLower(c) ==
    CASE c = "A" -> "a"
      [] c = "H" -> "h"
      [] c = "I" -> "i"
      [] c = "Sigma" -> "sigma"
      [] OTHER -> c

\* str.lower(): character by character, except that a capital sigma that
\* follows a cased character and is not followed by one becomes the final
\* small sigma
lower(s) ==
    [i \in 1..Len(s) |->
        IF /\ s[i] = "Sigma"
           /\ i > 1
           /\ s[i-1] \in Cased
           /\ ~(i < Len(s) /\ s[i+1] \in Cased)
        THEN "fsigma"
        ELSE ToLower(s[i])]

\* str.strip()
strip(s) ==
    LET idx == { i \in 1..Len(s) : s[i] # " " }
    IN  IF idx = {} THEN <<>>
        ELSE SubSeq(s, CHOOSE i \in idx : \A j \in idx : i <= j,
                       CHOOSE i \in idx : \A j \in idx : j <= i)

\* sub in s
Contains(s, sub) ==
    \E i \in 0..(Len(s) - Len(sub)) : SubSeq(s, i + 1, i + Len(sub)) = sub

-----------------------------------------------------------------------------
(* The denylist file and the query filter *)

NonEmptyLine(line) == strip(line) # <<>>

\* the stripped non-empty lines of a file's content
TextFileLines(file) ==
    LET kept == SelectSeq(file, NonEmptyLine)
    IN  [i \in 1..Len(kept) |-> strip(kept[i])]

\* load_text_file_lines(BLOCKED_FILE)
load_text_file_lines == TextFileLines(blockedFile)

\* the lowered phrases of a denylist file's content
BlockedPhrasesOf(file) ==
    LET phrases == TextFileLines(file)
    IN  [i \in 1..Len(phrases) |-> lower(phrases[i])]

load_blocked_phrases == BlockedPhrasesOf(blockedFile)

get_blocked_phrases == load_text_file_lines

\* is_blocked_query(query, blocked_phrases); NotLoaded: no list passed
is_blocked_query(query, phrases) ==
    LET list == IF phrases = NotLoaded THEN load_blocked_phrases
                ELSE phrases.phrases
        query_lower == lower(query)
    IN  \E i \in 1..Len(list) : Contains(query_lower, list[i])

rule_excessive_caps(query) ==
    IF Len(query) < 10 THEN FALSE
    ELSE 10 * Cardinality({ i \in 1..Len(query) : query[i] \in Upper })
           > 7 * Len(query)

\* the length of the whitespace-separated word that holds position i
WordLen(query, i) ==
    LET spaces == { j \in 1..Len(query) : query[j] = " " }
        before == { j \in spaces : j < i } \cup {0}
        after  == { j \in spaces : j > i } \cup {Len(query) + 1}
        first  == CHOOSE j \in before : \A k \in before : k <= j
        last   == CHOOSE j \in after : \A k \in after : j <= k
    IN  last - first - 1

rule_excessive_repetition(query) ==
    \E i \in 1..(Len(query) - 2) :
        /\ query[i] # " "
        /\ query[i] = query[i+1]
        /\ query[i+1] = query[i+2]
        /\ WordLen(query, i) > 5

rule_too_short_unstripped(query) == Len(query) < 3

rule_too_short(query) == Len(strip(query)) < 3

\* calling a rule held in QueryFilter._custom_rules
ApplyRule(rule, query) ==
    CASE rule = "rule_excessive_caps" -> rule_excessive_caps(query)
      [] rule = "rule_excessive_repetition" -> rule_excessive_repetition(query)
      [] rule = "rule_too_short" -> rule_too_short(query)

\* QueryFilter._load_blocked_phrases: the cache after the call
LoadedCache ==
    IF blocked_phrases = NotLoaded
    THEN [loaded |-> TRUE, phrases |-> load_blocked_phrases]
    ELSE blocked_phrases

\* add_blocked_phrase(phrase); fs_ok: the file can be opened for appending
AddBlockedPhrase(phrase, fs_ok) ==
    /\ ret.op = "none"
    /\ Len(blockedFile) < MaxPhrases
    /\ blockedFile' = IF fs_ok THEN Append(blockedFile, strip(phrase))
                      ELSE blockedFile
    /\ ret' = [op |-> "add_blocked_phrase", phrase |-> phrase, value |-> fs_ok]
    /\ UNCHANGED <<storeVars, blocked_phrases, custom_rules, auxVars>>

\* remove_blocked_phrase(phrase); fs_ok: the file can be opened for writing
RemoveBlockedPhrase(phrase, fs_ok) ==
    LET phrases  == load_text_file_lines
        Differs(p) == lower(p) # lower(phrase)
        filtered_phrases == SelectSeq(phrases, Differs)
        removed  == Len(filtered_phrases) < Len(phrases)
    IN  /\ ret.op = "none"
        /\ blockedFile' = IF removed /\ fs_ok THEN filtered_phrases
                          ELSE blockedFile
        /\ ret' = [op |-> "remove_blocked_phrase", phrase |-> phrase,
                   value |-> (removed /\ fs_ok)]
        /\ UNCHANGED <<storeVars, blocked_phrases, custom_rules, auxVars>>

\* a call of is_blocked_query(query) with no list passed
IsBlockedQuery(query) ==
    /\ ret.op = "none"
    /\ ret' = [op |-> "is_blocked_query", query |-> query,
               value |-> is_blocked_query(query, NotLoaded)]
    /\ UNCHANGED <<storeVars, filterVars, auxVars>>

\* QueryFilter.is_query_blocked(query)
IsQueryBlocked(query) ==
    /\ ret.op = "none"
    /\ blocked_phrases' = LoadedCache
    /\ ret' = [op |-> "is_query_blocked", query |-> query,
               value |-> \/ is_blocked_query(query, LoadedCache)
                         \/ \E i \in 1..Len(custom_rules) :
                              ApplyRule(custom_rules[i], query)]
    /\ UNCHANGED <<storeVars, blockedFile, custom_rules, auxVars>>

\* a refresh that empties the cache when there is nothing to drop
RefreshPhrases_toggle ==
    /\ ret.op \in {"none", "refresh_phrases"}
    /\ blocked_phrases' = IF blocked_phrases = NotLoaded
                          THEN [loaded |-> TRUE, phrases |-> <<>>]
                          ELSE NotLoaded
    /\ ret' = [op |-> "refresh_phrases", again |-> ret.op = "refresh_phrases"]
    /\ UNCHANGED <<storeVars, blockedFile, custom_rules, auxVars>>

\* QueryFilter.refresh_phrases(); again: the call before it was a refresh too
RefreshPhrases ==
    /\ ret.op \in {"none", "refresh_phrases"}
    /\ blocked_phrases' = NotLoaded
    /\ ret' = [op |-> "refresh_phrases", again |-> ret.op = "refresh_phrases"]
    /\ UNCHANGED <<storeVars, blockedFile, custom_rules, auxVars>>

\* setup_default_rules(): three add_custom_rule calls on the global filter
SetupDefaultRules ==
    /\ ret.op = "none"
    /\ Len(custom_rules) < 3 * MaxSetups
    /\ custom_rules' = custom_rules \o <<"rule_excessive_caps",
                                         "rule_excessive_repetition",
                                         "rule_too_short">>
    /\ ret' = [op |-> "setup_default_rules"]
    /\ UNCHANGED <<storeVars, blockedFile, blocked_phrases, auxVars>>

\* Phrases an administrator submits
Phrases ==
    { <<"A", "Sigma">>, <<" ", "h", "i", " ">>, <<"H", "I">>, <<>> }

\* Queries users submit
Queries ==
    { <<"h", "i">>,
      <<" ", "h", "i", " ">>,
      <<"A", "Sigma", "A">>,
      <<"a", "h", "a">>,
      <<"h", "a", "a", "a", "a", "h">>,
      <<"H", "I", "H", "I", "H", "I", "H", "I", "H", "I">>,
      <<"A", "A", " ", "A", "A", " ", "A", "A", "A", "A">> }

InitFilter ==
    /\ documents = {}
    /\ feedback = <<>>
    /\ feedbackLog = <<>>
    /\ adjustments = NoAdjustments
    /\ blockedFile = <<>>
    /\ blocked_phrases = NotLoaded
    /\ custom_rules = <<>>
    /\ ret = NoCall
    /\ blockedLog = <<>>
    /\ calls = <<>>
    /\ users = NoUsers
    /\ invite_codes = NoCodes

NextFilter ==
    \/ \E phrase \in Phrases, fs_ok \in BOOLEAN : AddBlockedPhrase(phrase, fs_ok)
    \/ \E phrase \in Phrases, fs_ok \in BOOLEAN : RemoveBlockedPhrase(phrase, fs_ok)
    \/ \E query \in Queries : IsBlockedQuery(query)
    \/ \E query \in Queries : IsQueryBlocked(query)
    \/ RefreshPhrases
    \/ SetupDefaultRules
    \/ Respond

SpecFilter == InitFilter /\ [][NextFilter]_vars

-----------------------------------------------------------------------------
(* Claims about query blocking, checked under SpecFilter *)

\* two characters that are the same letter, whatever their case
SameLetter(c, d) ==
    \/ c = d
    \/ ToLower(c) = ToLower(d)
    \/ {c, d} \subseteq {"Sigma", "sigma", "fsigma"}

\* phrase occurs in query as a case-insensitive substring
ContainsIgnoringCase(query, phrase) ==
    \E i \in 0..(Len(query) - Len(phrase)) :
        \A k \in 1..Len(phrase) : SameLetter(query[i + k], phrase[k])

\* C9 as stated: after any sequence of add_blocked_phrase and
\* remove_blocked_phrase calls, is_blocked_query(q) is True for every q that
\* contains a phrase of the denylist as a case-insensitive substring.
C9_DenylistedPhraseBlocks ==
    ret.op = "is_blocked_query" =>
      \A i \in 1..Len(get_blocked_phrases) :
         ContainsIgnoringCase(ret.query, get_blocked_phrases[i]) => ret.value

\* What is_blocked_query does guarantee: a query is blocked when its
\* lower-cased form contains the lower-cased form of a denylisted phrase.
C9_LoweredPhraseBlocks ==
    ret.op = "is_blocked_query" =>
      \A i \in 1..Len(get_blocked_phrases) :
         Contains(lower(ret.query), lower(get_blocked_phrases[i])) => ret.value

FirstMatchingRule(query) ==
    IF is_blocked_query(query, LoadedCache) THEN "denylist"
    ELSE IF \E i \in 1..Len(custom_rules) : ApplyRule(custom_rules[i], query)
    THEN LET first == CHOOSE i \in 1..Len(custom_rules) :
                        /\ ApplyRule(custom_rules[i], query)
                        /\ \A j \in 1..(i-1) : ~ApplyRule(custom_rules[j], query)
         IN  custom_rules[first]
    ELSE "allowed"

\* C11 as stated: when the filter chain blocks a query, the outcome it
\* returns is not a bare boolean: it names the rule that matched, the first
\* matching one in the order denylist, capitals, repetition, too short.
C11_BlockedOutcomeNamesRule ==
    (ret.op = "is_query_blocked" /\ ret.value = TRUE) =>
      /\ ret.value \notin BOOLEAN
      /\ ret.value = FirstMatchingRule(ret.query)

\* what is_query_blocked answers for the query when the filter holds the
\* given cache and rules and the denylist file the given content
AnswerIn(query, cache, file, rules) ==
    LET loaded == IF cache = NotLoaded
                  THEN [loaded |-> TRUE, phrases |-> BlockedPhrasesOf(file)]
                  ELSE cache
    IN  \/ is_blocked_query(query, loaded)
        \/ \E i \in 1..Len(rules) : ApplyRule(rules[i], query)

\* what is_query_blocked answers for the query in the current state
Answer(query) == AnswerIn(query, blocked_phrases, blockedFile, custom_rules)

\* C19: a refresh_phrases that directly follows a refresh_phrases, with no
\* add_blocked_phrase or remove_blocked_phrase in between, leaves
\* is_query_blocked answering every query as after the single refresh.
C19_RefreshIsIdempotent ==
    [][(ret.op = "refresh_phrases" /\ ret'.op = "refresh_phrases")
         => /\ blocked_phrases' = blocked_phrases
            /\ \A query \in Queries :
                 AnswerIn(query, blocked_phrases', blockedFile', custom_rules')
                   = Answer(query)]_vars

\* two refreshes in a row of a filter with rules and a denylist
C19_Witness ==
    /\ ret.op = "refresh_phrases"
    /\ ret.again
    /\ blockedFile # <<>>
    /\ custom_rules # <<>>

-----------------------------------------------------------------------------
(* The presentation layer: the two query paths and validate_and_log_query.
   Writes to the audit file succeed. *)

BlockedEntry(now, email, query) ==
    [timestamp |-> now, email |-> email, query |-> query,
     type |-> "blocked_query"]

log_blocked_query_anonymous(email, query, now) ==
    Append(blockedLog, BlockedEntry(now, "", query))

\* log_blocked_query(email, query): the audit file after the call; now is
\* datetime.now()
log_blocked_query(email, query, now) ==
    Append(blockedLog, BlockedEntry(now, email, query))

\* process_search_query(query, ...) of the search page.  check_raises: the
\* denylist check raises (the exception leaves the function)
ProcessSearchQuery(query, email, now, check_raises) ==
    /\ ret.op = "none"
    /\ Len(blockedLog) < MaxAudit
    /\ query # <<>>
    /\ IF check_raises
       THEN /\ ret' = [op |-> "process_search_query", query |-> query,
                       email |-> email, blocked |-> FALSE,
                       retrieved |-> FALSE, raised |-> TRUE]
            /\ UNCHANGED blockedLog
       ELSE IF is_blocked_query(query, NotLoaded)
       THEN /\ blockedLog' = log_blocked_query(email, query, now)
            /\ ret' = [op |-> "process_search_query", query |-> query,
                       email |-> email, blocked |-> TRUE,
                       retrieved |-> FALSE, raised |-> FALSE]
       ELSE /\ ret' = [op |-> "process_search_query", query |-> query,
                       email |-> email, blocked |-> FALSE,
                       retrieved |-> TRUE, raised |-> FALSE]
            /\ UNCHANGED blockedLog
    /\ UNCHANGED <<storeVars, filterVars, calls, accountVars>>

\* ConversationalChatInterface.process_user_query(query).  session: the
\* Streamlit session state; service_ok: CONVERSATIONAL_SERVICE_AVAILABLE
ProcessUserQuery(query, session, now, check_raises, service_ok) ==
    /\ ret.op = "none"
    /\ Len(blockedLog) < MaxAudit
    /\ LET email == IF session.has_email THEN session.email ELSE "anonymous"
           out(blocked, retrieved) ==
               [op |-> "process_user_query", query |-> query, email |-> email,
                blocked |-> blocked, retrieved |-> retrieved, raised |-> FALSE]
       IN  IF strip(query) = <<>>
           THEN ret' = out(FALSE, FALSE) /\ UNCHANGED blockedLog
           ELSE IF ~check_raises /\ is_blocked_query(query, NotLoaded)
           THEN /\ blockedLog' = IF session.has_email
                                 THEN log_blocked_query(session.email, query, now)
                                 ELSE blockedLog
                /\ ret' = out(TRUE, FALSE)
           ELSE /\ ret' = out(FALSE, service_ok)
                /\ UNCHANGED blockedLog
    /\ UNCHANGED <<storeVars, filterVars, calls, accountVars>>

\* validate_and_log_query(email, query)
ValidateAndLogQuery(email, query, now) ==
    /\ ret.op = "none"
    /\ Len(blockedLog) < MaxAudit
    /\ IF is_blocked_query(query, NotLoaded)
       THEN /\ blockedLog' = log_blocked_query(email, query, now)
            /\ ret' = [op |-> "validate_and_log_query", query |-> query,
                       email |-> email, blocked |-> TRUE, value |-> FALSE]
       ELSE /\ ret' = [op |-> "validate_and_log_query", query |-> query,
                       email |-> email, blocked |-> FALSE, value |-> TRUE]
            /\ UNCHANGED blockedLog
    /\ UNCHANGED <<storeVars, filterVars, calls, accountVars>>

\* Sessions of logged-in users: show_login sets the email with the
\* authenticated flag
Sessions == { [has_email |-> TRUE, email |-> "u1"] }
Times == {1, 2}
UIQueries == Queries \cup { <<>>, <<" ", " ">> }

\* Denylists the administrator has built
Denylists ==
    { <<>>, << <<"h", "i">> >>, << <<"A", "Sigma">>, <<"H", "I">> >> }

InitUI ==
    /\ documents = {}
    /\ feedback = <<>>
    /\ feedbackLog = <<>>
    /\ adjustments = NoAdjustments
    /\ blockedFile \in Denylists
    /\ blocked_phrases = NotLoaded
    /\ custom_rules = <<>>
    /\ ret = NoCall
    /\ blockedLog = <<>>
    /\ calls = <<>>
    /\ users = NoUsers
    /\ invite_codes = NoCodes

NextUI ==
    \/ SetupDefaultRules
    \/ \E query \in UIQueries, session \in Sessions, now \in Times,
          check_raises \in BOOLEAN :
         ProcessSearchQuery(query, session.email, now, check_raises)
    \/ \E query \in UIQueries, session \in Sessions, now \in Times,
          check_raises, service_ok \in BOOLEAN :
         ProcessUserQuery(query, session, now, check_raises, service_ok)
    \/ \E query \in UIQueries, session \in Sessions, now \in Times :
         ValidateAndLogQuery(session.email, query, now)
    \/ Respond

SpecUI == InitUI /\ [][NextUI]_vars

-----------------------------------------------------------------------------
(* Claims about the presentation layer, checked under SpecUI *)

ChainBlocks(query) ==
    \/ is_blocked_query(query, NotLoaded)
    \/ rule_excessive_caps(query)
    \/ rule_excessive_repetition(query)
    \/ rule_too_short(query)

\* C13 as stated: retrieval is never invoked for a query that a rule of the
\* filter chain blocks (denylist, capitals, repetition, too short).
C13_NoRetrievalForBlockedQuery ==
    (ret.op \in {"process_search_query", "process_user_query"}
       /\ ret.retrieved)
      => ~ChainBlocks(ret.query)

-----------------------------------------------------------------------------
(* Claims about the feedback ledger's records, checked under SpecFeedback *)

IsPrefix(s, t) == Len(s) <= Len(t) /\ SubSeq(t, 1, Len(s)) = s
IsSuffix(s, t) == Len(s) <= Len(t) /\ SubSeq(t, Len(t) - Len(s) + 1, Len(t)) = s

PenaltyTable ==
    [h \in Hashes |->
       [db_up \in BOOLEAN |->
          { get_score_penalty(h, did, db_up) : did \in get_document_id(h) }]]

\* C15 as stated: recording an upvote with log_feedback never changes the
\* penalty of any content-hash, whatever the two stores hold.
C15_UpvoteLeavesPenalty ==
    [][(ret'.op = "log_feedback" /\ ret'.vote = "up" /\ ret'.value)
         => PenaltyTable' = PenaltyTable]_vars

\* C16 as stated: the backup is never read at query time: a step that
\* leaves the feedback table as it was and changes only the backup changes
\* the penalty of no content-hash.
C16_BackupNotReadAtQueryTime ==
    [][feedback' = feedback => PenaltyTable' = PenaltyTable]_vars

\* C20 as stated: log_feedback returns True only when the feedback table or
\* the backup log recorded the vote, and False when both writes fail.
C20_TrueOnlyWhenRecorded ==
    [][(ret'.op = "log_feedback" /\ ret'.value)
         => \/ Len(feedback') = Len(feedback) + 1
            \/ Len(feedbackLog') = Len(feedbackLog) + 1]_vars

-----------------------------------------------------------------------------
(* Concurrent log_feedback calls.  Every INSERT, every appended line, every
   load and every save of feedback_adjustments.json is one atomic step; no
   write fails. *)

Writers == 1..NumWriters

Idle == [pc |-> "idle"]

\* log_feedback(query, text, vote, user_email) is entered with a valid vote
WriterStart(p, text, vote) ==
    /\ calls[p].pc = "idle"
    /\ ~Falsy(text)
    /\ vote \in {"up", "down"}
    /\ calls' = [calls EXCEPT ![p] =
                   [pc |-> "insert", text_hash |-> hash_text(text),
                    vote |-> vote, adj |-> NoAdjustments]]
    /\ UNCHANGED <<storeVars, filterVars, ret, blockedLog, accountVars>>

\* log_feedback_to_database: the INSERT
WriterInsert(p) ==
    /\ calls[p].pc = "insert"
    /\ \E document_id \in get_document_id(calls[p].text_hash) :
         feedback' = Append(feedback,
                            FeedbackRow(document_id, calls[p].vote, Submitter))
    /\ calls' = [calls EXCEPT ![p].pc = "append"]
    /\ UNCHANGED <<documents, feedbackLog, adjustments, filterVars, ret,
                   blockedLog, accountVars>>

\* log_feedback_to_json: the appended line
WriterAppend(p) ==
    /\ calls[p].pc = "append"
    /\ feedbackLog' = log_feedback_to_json(calls[p].text_hash, calls[p].vote,
                                           Submitter)
    /\ calls' = [calls EXCEPT ![p].pc = "load"]
    /\ UNCHANGED <<documents, feedback, adjustments, filterVars, ret,
                   blockedLog, accountVars>>

\* update_json_adjustments: adj = load_adjustments()
WriterLoad(p) ==
    /\ calls[p].pc = "load"
    /\ calls' = [calls EXCEPT ![p].pc = "save", ![p].adj = load_adjustments]
    /\ UNCHANGED <<storeVars, filterVars, ret, blockedLog, accountVars>>

\* update_json_adjustments: the count and save_adjustments(adj); the call
\* returns True
WriterSave(p) ==
    /\ calls[p].pc = "save"
    /\ adjustments' = CountVote(calls[p].adj, calls[p].text_hash, calls[p].vote)
    /\ calls' = [calls EXCEPT ![p].pc = "done"]
    /\ UNCHANGED <<documents, feedback, feedbackLog, filterVars, ret,
                   blockedLog, accountVars>>

InitWriters ==
    /\ documents = { d \in DocPool : d.id \in {1, 2, 6} }
    /\ feedback = <<>>
    /\ feedbackLog = <<>>
    /\ adjustments = NoAdjustments
    /\ blockedFile = <<>>
    /\ blocked_phrases = NotLoaded
    /\ custom_rules = <<>>
    /\ ret = NoCall
    /\ blockedLog = <<>>
    /\ calls = [p \in Writers |-> Idle]
    /\ users = NoUsers
    /\ invite_codes = NoCodes

NextWriters ==
    \E p \in Writers :
       \/ \E text \in FeedbackTexts, vote \in VoteValues : WriterStart(p, text, vote)
       \/ WriterInsert(p)
       \/ WriterAppend(p)
       \/ WriterLoad(p)
       \/ WriterSave(p)

SpecWriters == InitWriters /\ [][NextWriters]_vars

-----------------------------------------------------------------------------
(* Claims about concurrent feedback writers, checked under SpecWriters *)

\* the completed calls that cast the vote on the hash
Completed_calls(text_hash, vote) ==
    Cardinality({ p \in Writers :
                    /\ calls[p].pc = "done"
                    /\ calls[p].text_hash = text_hash
                    /\ calls[p].vote = vote })

\* C17 as stated: whatever the interleaving of the concurrent log_feedback
\* calls, once all have completed the up/down aggregate of every content-hash
\* equals the number of completed up/down calls for it.
C17_NoVoteLost ==
    (\A p \in Writers : calls[p].pc = "done") =>
      \A h \in Hashes \ {""} : \A did \in get_document_id(h) :
         LET votes == get_vote_summary(h, did, TRUE)
         IN  /\ votes.thumbs_up = Completed_calls(h, "up")
             /\ votes.thumbs_down = Completed_calls(h, "down")

-----------------------------------------------------------------------------
(* A denylist update running while queries are evaluated.  The administrator's
   remove_blocked_phrase runs in steps: open(BLOCKED_FILE, "w") truncates the
   file, the lines reach the file in one or more flushes, close flushes the
   rest.  A reader reads the whole file in one step. *)

Admin == "admin"

\* remove_blocked_phrase: the file is read and filtered and, when a line
\* goes, opened for writing
RemoveOpen(phrase) ==
    LET phrases  == load_text_file_lines
        Differs(p) == lower(p) # lower(phrase)
        filtered_phrases == SelectSeq(phrases, Differs)
    IN  /\ calls[Admin].pc = "idle"
        /\ Len(filtered_phrases) < Len(phrases)
        /\ blockedFile' = <<>>
        /\ calls' = [calls EXCEPT ![Admin] =
                       [pc |-> "writing", old |-> phrases,
                        new |-> filtered_phrases]]
        /\ UNCHANGED <<storeVars, blocked_phrases, custom_rules, ret, blockedLog, accountVars>>

\* some of the buffered lines reach the file
RemoveFlush(n) ==
    /\ calls[Admin].pc = "writing"
    /\ Len(blockedFile) + n <= Len(calls[Admin].new)
    /\ blockedFile' = SubSeq(calls[Admin].new, 1, Len(blockedFile) + n)
    /\ UNCHANGED <<storeVars, blocked_phrases, custom_rules, ret, blockedLog,
                   calls, accountVars>>

\* the file is closed: all lines are in it, the call returns True
RemoveClose ==
    /\ calls[Admin].pc = "writing"
    /\ blockedFile' = calls[Admin].new
    /\ calls' = [calls EXCEPT ![Admin] = Idle]
    /\ UNCHANGED <<storeVars, blocked_phrases, custom_rules, ret, blockedLog, accountVars>>

\* add_blocked_phrase between two removals: one appended line
AdminAdd(phrase) ==
    /\ calls[Admin].pc = "idle"
    /\ Len(blockedFile) < MaxPhrases
    /\ blockedFile' = Append(blockedFile, strip(phrase))
    /\ UNCHANGED <<storeVars, blocked_phrases, custom_rules, ret, blockedLog,
                   calls, accountVars>>

\* Denylist files the administrator starts from
RaceDenylists ==
    { <<>>, << <<"A", "Sigma">>, <<"h", "i">>, <<"a", "h", "a">> >> }

InitRace ==
    /\ documents = {}
    /\ feedback = <<>>
    /\ feedbackLog = <<>>
    /\ adjustments = NoAdjustments
    /\ blockedFile \in RaceDenylists
    /\ blocked_phrases = NotLoaded
    /\ custom_rules = <<>>
    /\ ret = NoCall
    /\ blockedLog = <<>>
    /\ calls = [p \in {Admin} |-> Idle]
    /\ users = NoUsers
    /\ invite_codes = NoCodes

NextRace ==
    \/ \E phrase \in Phrases : AdminAdd(phrase)
    \/ \E phrase \in Phrases : RemoveOpen(phrase)
    \/ \E n \in 1..MaxPhrases : RemoveFlush(n)
    \/ RemoveClose
    \/ \E query \in Queries : IsBlockedQuery(query)
    \/ \E query \in Queries : IsQueryBlocked(query)
    \/ RefreshPhrases
    \/ Respond

SpecRace == InitRace /\ [][NextRace]_vars

-----------------------------------------------------------------------------
(* Claims about readers during a denylist update, checked under SpecRace *)

\* what is_blocked_query answers for the query against a phrase list
AnswerWith(phrases, query) ==
    is_blocked_query(query,
        [loaded |-> TRUE,
         phrases |-> [i \in 1..Len(phrases) |-> lower(phrases[i])]])

\* C18 as stated: a reader that evaluates the denylist while an update runs
\* observes the complete old phrase set or the complete new one: its answer
\* is the answer the old set gives or the answer the new set gives.
C18_ReaderSeesOldOrNew ==
    [][(ret'.op = "is_blocked_query" /\ calls[Admin].pc = "writing")
         => ret'.value \in { AnswerWith(calls[Admin].old, ret'.query),
                             AnswerWith(calls[Admin].new, ret'.query) }]_vars

-----------------------------------------------------------------------------
(* The similarity scorer on its own: cosine_similarity applied to any two
   vectors, zero vectors, vectors of different lengths and a missing
   embedding included *)

\* the largest component of the vectors the scorer is applied to
MaxComponent == 2

Components == (0 - 1)..MaxComponent

Vectors ==
    { Embedding(dim, <<x, y>>) :
        dim \in {EMBEDDING_DIM, EMBEDDING_DIM - 1},
        x \in Components, y \in Components }
      \cup { NullEmbedding }

\* a call of cosine_similarity; the body is one try block whose handler
\* returns 0.0, so no exception leaves the call
CosineSimilarity(vec1, vec2) ==
    /\ ret.op = "none"
    /\ ret' = [op |-> "cosine_similarity", vec1 |-> vec1, vec2 |-> vec2,
               raised |-> FALSE,
               value |-> cosine_similarity(vec1, vec2)]
    /\ UNCHANGED <<storeVars, filterVars, auxVars>>

InitScorer ==
    /\ documents = {}
    /\ feedback = <<>>
    /\ feedbackLog = <<>>
    /\ adjustments = NoAdjustments
    /\ blockedFile = <<>>
    /\ blocked_phrases = NotLoaded
    /\ custom_rules = <<>>
    /\ ret = NoCall
    /\ blockedLog = <<>>
    /\ calls = <<>>
    /\ users = NoUsers
    /\ invite_codes = NoCodes

NextScorer ==
    \/ \E vec1 \in Vectors, vec2 \in Vectors : CosineSimilarity(vec1, vec2)
    \/ Respond

SpecScorer == InitScorer /\ [][NextScorer]_vars

\* the vector has zero norm
ZeroNorm(vec) == Dot(vec.v, vec.v) = 0

\* C21: when either argument of cosine_similarity has zero norm, the call
\* returns exactly 0.0 and raises nothing, whatever the other argument is.
C21_ZeroNormGivesZero ==
    (ret.op = "cosine_similarity" /\ (ZeroNorm(ret.vec1) \/ ZeroNorm(ret.vec2)))
      => (ret.value = 0 /\ ~ret.raised)

\* a zero vector scored against a non-zero vector of another length, in the
\* second position
C21_Witness ==
    /\ ret.op = "cosine_similarity"
    /\ ZeroNorm(ret.vec2)
    /\ ~ZeroNorm(ret.vec1)
    /\ ret.vec1.dim # ret.vec2.dim
    /\ ret.value = 0

-----------------------------------------------------------------------------
(* The filter chain with rules that fail: a custom rule that raises, and a
   denylist file that cannot be decoded when the cache has to be loaded *)

\* a rule function that raises an exception when it is called
RaisingRule == "rule_raising"

\* QueryFilter.add_custom_rule(rule_func)
AddCustomRule(rule) ==
    /\ ret.op = "none"
    /\ Len(custom_rules) < 3 * MaxSetups
    /\ custom_rules' = Append(custom_rules, rule)
    /\ ret' = [op |-> "add_custom_rule", rule |-> rule]
    /\ UNCHANGED <<storeVars, blockedFile, blocked_phrases, auxVars>>

\* the loop over _custom_rules: a rule that raises is skipped
RECURSIVE RunRules(_, _)
RunRules(rules, query) ==
    IF rules = <<>> THEN FALSE
    ELSE IF Head(rules) = RaisingRule THEN RunRules(Tail(rules), query)
    ELSE IF ApplyRule(Head(rules), query) THEN TRUE
    ELSE RunRules(Tail(rules), query)

\* QueryFilter.is_query_blocked(query).  decodable: blocked_queries.txt is
\* valid UTF-8; when it is not, reading it raises UnicodeDecodeError, which
\* load_text_file_lines' "except IOError" does not catch and which leaves
\* is_query_blocked, the denylist check being outside the try block.
IsQueryBlockedWithFaults(query, decodable) ==
    /\ ret.op = "none"
    /\ IF blocked_phrases = NotLoaded /\ ~decodable
       THEN /\ UNCHANGED blocked_phrases
            /\ ret' = [op |-> "is_query_blocked", query |-> query,
                       denylist_failed |-> TRUE, raised |-> TRUE,
                       value |-> FALSE]
       ELSE /\ blocked_phrases' = LoadedCache
            /\ ret' = [op |-> "is_query_blocked", query |-> query,
                       denylist_failed |-> FALSE, raised |-> FALSE,
                       value |-> \/ is_blocked_query(query, LoadedCache)
                                 \/ RunRules(custom_rules, query)]
    /\ UNCHANGED <<storeVars, blockedFile, custom_rules, auxVars>>

InitChain ==
    /\ documents = {}
    /\ feedback = <<>>
    /\ feedbackLog = <<>>
    /\ adjustments = NoAdjustments
    /\ blockedFile \in Denylists
    /\ blocked_phrases = NotLoaded
    /\ custom_rules = <<>>
    /\ ret = NoCall
    /\ blockedLog = <<>>
    /\ calls = <<>>
    /\ users = NoUsers
    /\ invite_codes = NoCodes

NextChain ==
    \/ SetupDefaultRules
    \/ AddCustomRule(RaisingRule)
    \/ \E query \in Queries, decodable \in BOOLEAN :
         IsQueryBlockedWithFaults(query, decodable)
    \/ RefreshPhrases
    \/ Respond

SpecChain == InitChain /\ [][NextChain]_vars

\* the answer of the chain with every failing rule removed
ChainWithoutFailing(query, denylist_failed) ==
    \/ ~denylist_failed /\ is_blocked_query(query, LoadedCache)
    \/ \E i \in 1..Len(custom_rules) :
         /\ custom_rules[i] # RaisingRule
         /\ ApplyRule(custom_rules[i], query)

\* C22 as stated: is_query_blocked raises nothing when a rule fails, the
\* denylist rule included, and answers as the chain without the failing
\* rules answers.
C22_FailOpenEveryRule ==
    ret.op = "is_query_blocked" =>
      /\ ~ret.raised
      /\ ret.value = ChainWithoutFailing(ret.query, ret.denylist_failed)

\* What the loop over the custom rules does guarantee: when the denylist
\* check itself does not fail, raising custom rules are skipped and the
\* answer is the one of the chain without them.
C22_CustomRulesFailOpen ==
    (ret.op = "is_query_blocked" /\ ~ret.denylist_failed) =>
      /\ ~ret.raised
      /\ ret.value = ChainWithoutFailing(ret.query, FALSE)

-----------------------------------------------------------------------------
(* The rule functions on their own, applied to queries of capitals and small
   letters with whitespace around them *)

\* the most spaces before and after a query, and the most letters of a kind
MaxPad == 2
MaxLetters == 10

Repeat(c, n) == [i \in 1..n |-> c]

\* lead spaces, caps capitals, smalls small letters, trail spaces
PaddedQuery(lead, caps, smalls, trail) ==
    Repeat(" ", lead) \o Repeat("A", caps) \o Repeat("a", smalls)
        \o Repeat(" ", trail)

RuleQueries ==
    { PaddedQuery(lead, caps, smalls, trail) :
        lead \in 0..MaxPad, caps \in 0..MaxLetters,
        smalls \in {0, 1, 3}, trail \in 0..MaxPad }

DefaultRules ==
    {"rule_excessive_caps", "rule_excessive_repetition", "rule_too_short"}

\* a call rule(query) of one of the rule functions
CallRule(rule, query) ==
    /\ ret.op = "none"
    /\ ret' = [op |-> "rule", rule |-> rule, query |-> query,
               value |-> ApplyRule(rule, query)]
    /\ UNCHANGED <<storeVars, filterVars, auxVars>>

InitRules ==
    /\ documents = {}
    /\ feedback = <<>>
    /\ feedbackLog = <<>>
    /\ adjustments = NoAdjustments
    /\ blockedFile = <<>>
    /\ blocked_phrases = NotLoaded
    /\ custom_rules = <<>>
    /\ ret = NoCall
    /\ blockedLog = <<>>
    /\ calls = <<>>
    /\ users = NoUsers
    /\ invite_codes = NoCodes

NextRules ==
    \/ \E rule \in DefaultRules, query \in RuleQueries : CallRule(rule, query)
    \/ Respond

SpecRules == InitRules /\ [][NextRules]_vars

\* the number of uppercase characters of a string
UpperCount(s) == Cardinality({ i \in 1..Len(s) : s[i] \in Upper })

\* C23 as stated: rule_excessive_caps blocks a query exactly when its
\* trimmed length is at least 10 and more than 0.7 of its characters are
\* uppercase; with a trimmed length below 10 it never blocks.
C23_CapsRuleUsesTrimmedLength ==
    (ret.op = "rule" /\ ret.rule = "rule_excessive_caps") =>
      LET trimmed == strip(ret.query)
      IN  /\ ret.value <=> /\ Len(trimmed) >= 10
                           /\ 10 * UpperCount(trimmed) > 7 * Len(trimmed)
          /\ Len(trimmed) < 10 => ~ret.value

\* What rule_excessive_caps computes: the length and the ratio are those of
\* the query as submitted, surrounding whitespace included.
C23_CapsRuleUsesRawLength ==
    (ret.op = "rule" /\ ret.rule = "rule_excessive_caps") =>
      (ret.value <=> /\ Len(ret.query) >= 10
                     /\ 10 * UpperCount(ret.query) > 7 * Len(ret.query))

-----------------------------------------------------------------------------
(* Claims about the threshold and the truncation of a search, checked under
   SpecSearch *)

\* the candidates of the last search: the rows its SELECT returns
Candidates == build_search_query(ret.source_filter)

\* the candidates whose score reaches the threshold
AtOrAboveThreshold == { d \in Candidates : Similarity(d) >= ret.min_score }

\* the document ranks strictly before the result in the sorted list
RanksBefore(d, r) ==
    \/ Priority(d) < calculate_category_priority(r.category)
    \/ /\ Priority(d) = calculate_category_priority(r.category)
       /\ Similarity(d) > r.score

\* the results of the last search are the first min(top_k, n) entries of the
\* sorted list of the n documents of S
FirstOfSorted(S) ==
    LET ids == { ret.results[i].id : i \in DOMAIN ret.results }
    IN  /\ Len(ret.results) = Min(ret.top_k, Cardinality(S))
        /\ Cardinality(ids) = Len(ret.results)
        /\ ids \subseteq { d.id : d \in S }
        /\ \A i \in DOMAIN ret.results :
             ret.results[i].score = Similarity(DocById(ret.results[i].id))
        /\ \A i, j \in DOMAIN ret.results :
             i < j => ~RanksBefore(DocById(ret.results[j].id), ret.results[i])
        /\ \A d \in S : d.id \notin ids =>
             \A i \in DOMAIN ret.results : ~RanksBefore(d, ret.results[i])

\* C24 as stated: for top_k > 0 a search returns the first min(top_k, n)
\* entries of the sorted list of the n candidates whose score is >= min_score,
\* never more than top_k entries and none scoring below min_score.
C24_TopKOfScoredAtThreshold ==
    (Completed /\ ret.top_k > 0) =>
      /\ FirstOfSorted(AtOrAboveThreshold)
      /\ Len(ret.results) <= ret.top_k
      /\ \A i \in DOMAIN ret.results : ret.results[i].score >= ret.min_score

\* the candidates that survive: a score >= min_score and a cleaned text of
\* at least 20 characters
Survivors ==
    { d \in AtOrAboveThreshold : clean_text(d.text).trimLen >= MIN_TEXT_LEN }

\* C24 as amended: the same with the survivors being the candidates whose
\* score is >= min_score and whose cleaned text keeps at least 20 characters.
C24_TopKOfSurvivors ==
    (Completed /\ ret.top_k > 0) =>
      /\ FirstOfSorted(Survivors)
      /\ Len(ret.results) <= ret.top_k
      /\ \A i \in DOMAIN ret.results : ret.results[i].score >= ret.min_score

\* a result scoring exactly min_score is returned, a survivor is cut off by
\* top_k, and a candidate above the threshold is dropped for its cleaned text
C24_Witness ==
    /\ Completed /\ ret.top_k > 0
    /\ \E i \in DOMAIN ret.results : ret.results[i].score = ret.min_score
    /\ AtOrAboveThreshold # Survivors
    /\ Cardinality(Survivors) >= 2

-----------------------------------------------------------------------------
(* Claims about the aggregate of the ledger, checked under SpecFeedback *)

\* C25 as stated: votes are not deduplicated and the aggregate follows the
\* records: every log_feedback call with a valid vote that recorded its vote
\* raises the count get_vote_summary returns for the text's hash by one in
\* the vote's column and leaves the other column, so n identical votes of one
\* submitter raise the count by n.
C25_EveryVoteCounts ==
    [][\A text \in FeedbackTexts, vote \in {"up", "down"} :
         (/\ ret'.op = "log_feedback"
          /\ ret'.text = text /\ ret'.vote = vote
          /\ ret'.value
          /\ (feedback' # feedback \/ feedbackLog' # feedbackLog))
           => \A document_id \in get_document_id(hash_text(text)) :
                LET before ==
                      get_vote_summary(hash_text(text), document_id, TRUE)
                    after ==
                      get_vote_summary(hash_text(text), document_id, TRUE)'
                IN  /\ after.thumbs_up = before.thumbs_up
                         + (IF vote = "up" THEN 1 ELSE 0)
                    /\ after.thumbs_down = before.thumbs_down
                         + (IF vote = "down" THEN 1 ELSE 0)]_vars

\* What the two stores do guarantee: a vote that both stores recorded raises
\* the feedback table's count and the backup's count for its hash by one.
C25_EachStoreCountsItsRecords ==
    [][(/\ ret'.op = "log_feedback"
        /\ feedback' # feedback /\ feedbackLog' # feedbackLog)
         => /\ Len(feedback') = Len(feedback) + 1
            /\ feedback'[Len(feedback')].feedback_type = ret'.vote
            /\ LET text_hash == hash_text(ret'.text)
                   old == IF text_hash \in DOMAIN adjustments
                          THEN adjustments[text_hash] ELSE Votes(0, 0)
               IN  adjustments'[text_hash] =
                     Votes(old.thumbs_up + (IF ret'.vote = "up" THEN 1 ELSE 0),
                           old.thumbs_down
                             + (IF ret'.vote = "down" THEN 1 ELSE 0))]_vars

\* the categories a supplied filter value can be asking for: the one the
\* engine maps it to, the value itself, and the stored name of "scripture"
RequestedCategories(source_filter) ==
    (IF source_filter \in DOMAIN filter_mapping
     THEN {filter_mapping[source_filter]} ELSE {source_filter})
      \cup (IF source_filter = "scripture" THEN {"quran"} ELSE {})

\* C26 as stated: when a filter value is supplied to a search, every result
\* returned belongs to the requested category.
C26_SuppliedFilterRestricts ==
    (Completed /\ ret.source_filter # None) =>
      \A i \in DOMAIN ret.results :
        ret.results[i].category \in RequestedCategories(ret.source_filter)

\* What build_search_query does guarantee: a filter value that is one of its
\* five recognised names restricts the results to the mapped category.
C26_RecognisedFilterRestricts ==
    (Completed /\ ret.source_filter \in DOMAIN filter_mapping) =>
      \A i \in DOMAIN ret.results :
        ret.results[i].category = filter_mapping[ret.source_filter]

-----------------------------------------------------------------------------
(* Claims about the filter's cache and the default rules, checked under
   SpecFilter *)

\* C27 as stated: once add_blocked_phrase(p) has returned True,
\* is_query_blocked is True for every query that contains p as a
\* case-insensitive substring, whether the filter had loaded its cache
\* before the call or not.  Read in the claim's favour: p is not blank, and
\* a query contains p when its lower-cased form contains lower-cased p.
C27_AddedPhraseBlocks ==
    (ret.op = "add_blocked_phrase" /\ ret.value /\ strip(ret.phrase) # <<>>) =>
      \A query \in Queries :
        Contains(lower(query), lower(ret.phrase)) => Answer(query)

\* What the filter does guarantee: when its cache is not loaded at the time
\* of the call, every query whose lower-cased form contains the lower-cased
\* phrase is blocked from then on.
C27_AddedPhraseBlocksUnlessCached ==
    (/\ ret.op = "add_blocked_phrase" /\ ret.value
     /\ strip(ret.phrase) # <<>>
     /\ blocked_phrases = NotLoaded) =>
      \A query \in Queries :
        Contains(lower(query), lower(strip(ret.phrase))) => Answer(query)

\* C28 as stated: after any number of setup_default_rules calls the filter
\* holds exactly the three default rules, each once, in the order
\* capitals, repetition, too short.
C28_SetupIsIdempotent ==
    ret.op = "setup_default_rules" =>
      custom_rules = <<"rule_excessive_caps", "rule_excessive_repetition",
                       "rule_too_short">>

\* What setup_default_rules does guarantee: the filter holds the three
\* default rules in that order once for every call made so far, so the rules
\* it holds are the three defaults and no other.
C28_SetupAppendsTheDefaults ==
    /\ Len(custom_rules) % 3 = 0
    /\ \A i \in 1..Len(custom_rules) :
         custom_rules[i] =
           <<"rule_excessive_caps", "rule_excessive_repetition",
             "rule_too_short">>[((i - 1) % 3) + 1]
    /\ ret.op = "setup_default_rules" => Len(custom_rules) >= 3

-----------------------------------------------------------------------------
(* add_blocked_phrase(p) directly followed by remove_blocked_phrase(p); the
   file can be written *)

\* the file after add_blocked_phrase(phrase) has appended its line
FileAfterAdd(file, phrase) == Append(file, strip(phrase))

\* remove_blocked_phrase(phrase) on a file: what it returns and leaves
RemoveFromFile(file, phrase) ==
    LET phrases == TextFileLines(file)
        Differs(p) == lower(p) # lower(phrase)
        filtered_phrases == SelectSeq(phrases, Differs)
        removed == Len(filtered_phrases) < Len(phrases)
    IN  [value |-> removed,
         file |-> IF removed THEN filtered_phrases ELSE file]

\* the two calls one after the other; before: get_blocked_phrases() as it
\* was before the add
AddThenRemove(phrase) ==
    LET removal == RemoveFromFile(FileAfterAdd(blockedFile, phrase), phrase)
    IN  /\ ret.op = "none"
        /\ Len(blockedFile) <= MaxPhrases
        /\ blockedFile' = removal.file
        /\ ret' = [op |-> "add_then_remove", phrase |-> phrase,
                   before |-> get_blocked_phrases,
                   added |-> TRUE, removed |-> removal.value]
        /\ UNCHANGED <<storeVars, blocked_phrases, custom_rules, auxVars>>

InitRoundTrip ==
    /\ documents = {}
    /\ feedback = <<>>
    /\ feedbackLog = <<>>
    /\ adjustments = NoAdjustments
    /\ blockedFile \in Denylists
    /\ blocked_phrases = NotLoaded
    /\ custom_rules = <<>>
    /\ ret = NoCall
    /\ blockedLog = <<>>
    /\ calls = <<>>
    /\ users = NoUsers
    /\ invite_codes = NoCodes

NextRoundTrip ==
    \/ \E phrase \in Phrases, fs_ok \in BOOLEAN : AddBlockedPhrase(phrase, fs_ok)
    \/ \E phrase \in Phrases, fs_ok \in BOOLEAN :
         RemoveBlockedPhrase(phrase, fs_ok)
    \/ \E phrase \in Phrases : AddThenRemove(phrase)
    \/ Respond

SpecRoundTrip == InitRoundTrip /\ [][NextRoundTrip]_vars

\* the phrases of a list as a set
PhraseSet(list) == { list[i] : i \in 1..Len(list) }

\* the denylist after the two calls is the one before the add without p,
\* and both calls returned True
RoundTripRestores ==
    /\ ret.added
    /\ ret.removed
    /\ PhraseSet(get_blocked_phrases) =
         { x \in PhraseSet(ret.before) : lower(x) # lower(strip(ret.phrase)) }

\* C29 as stated: for any phrase p that is not blank and any denylist,
\* add_blocked_phrase(p) followed by remove_blocked_phrase(p) returns True
\* and leaves the denylist as it was before the add, without p, also when p
\* has leading or trailing whitespace or was already present.
C29_AddThenRemoveRestores ==
    (ret.op = "add_then_remove" /\ strip(ret.phrase) # <<>>)
      => RoundTripRestores

\* What the two functions do guarantee: the round trip restores the denylist
\* for a phrase without leading or trailing whitespace.
C29_StrippedPhraseRoundTrips ==
    (/\ ret.op = "add_then_remove"
     /\ ret.phrase # <<>>
     /\ strip(ret.phrase) = ret.phrase)
      => RoundTripRestores

-----------------------------------------------------------------------------
(* Registration with an invite code: core/auth.py and core/invite_codes.py.
   register_user reads users.json, reads invite_codes.json, writes users.json,
   then reads and writes invite_codes.json; every read and every write of a
   file is one atomic step, and calls of several sessions interleave between
   them.  A save that fails leaves the file as it was and returns False. *)

NumRegistrants == 2

Registrants == 1..NumRegistrants

Emails == {"u1", "u2"}

\* "c1" and "c2" are created codes, "zz" was never created
CodeInputs == {"c1", "c2", "zz"}

\* create_invite_code: the entry of a new code
NewCodeEntry == [used |-> FALSE, email |-> "None"]

\* the account register_user creates
NewUser(invite_code) == [invite_code |-> invite_code, is_admin |-> FALSE]

load_users == users

load_invite_codes == invite_codes

\* validate_invite_code(code), on the content of invite_codes.json
validate_invite_code(codes, code) ==
    code \in DOMAIN codes /\ ~codes[code].used

\* users[email] = {...}
WithUser(loaded, email, invite_code) ==
    [e \in DOMAIN loaded \cup {email} |->
        IF e = email THEN NewUser(invite_code) ELSE loaded[e]]

\* codes[code]["used"] = True; codes[code]["email"] = email
WithUsedCode(codes, code, email) ==
    [codes EXCEPT ![code] = [used |-> TRUE, email |-> email]]

NotRegistering ==
    [pc |-> "idle", email |-> "", invite_code |-> "", users |-> NoUsers,
     codes |-> NoCodes, success |-> FALSE, error |-> "None",
     marked |-> FALSE, overlapped |-> FALSE]

InProgress(q) == calls[q].pc \notin {"idle", "done"}

RegisterReturns(p, success, error) ==
    [calls EXCEPT ![p].pc = "done", ![p].success = success, ![p].error = error]

\* register_user(email, password, invite_code): users = load_users() and the
\* test of email in users.  overlapped notes, for this call and for every
\* call in progress, that they ran at the same time.
RegisterLoadUsers(p, email, invite_code) ==
    LET others == { q \in Registrants \ {p} : InProgress(q) }
        exists == email \in DOMAIN load_users
        entered == [NotRegistering EXCEPT
                       !.pc = IF exists THEN "done" ELSE "validate",
                       !.email = email, !.invite_code = invite_code,
                       !.users = load_users,
                       !.error = IF exists THEN "User already exists."
                                 ELSE "None",
                       !.overlapped = (others # {})]
    IN  /\ calls[p].pc = "idle"
        /\ calls' = [q \in Registrants |->
                       IF q = p THEN entered
                       ELSE IF q \in others
                            THEN [calls[q] EXCEPT !.overlapped = TRUE]
                            ELSE calls[q]]
        /\ UNCHANGED <<storeVars, filterVars, ret, blockedLog, accountVars>>

\* register_user: if not validate_invite_code(invite_code)
RegisterValidate(p) ==
    /\ calls[p].pc = "validate"
    /\ calls' = IF validate_invite_code(load_invite_codes, calls[p].invite_code)
                THEN [calls EXCEPT ![p].pc = "save_users"]
                ELSE RegisterReturns(p, FALSE, "Invalid or used invite code.")
    /\ UNCHANGED <<storeVars, filterVars, ret, blockedLog, accountVars>>

\* register_user: users[email] = {...}; if save_users(users)
RegisterSaveUsers(p, saved) ==
    /\ calls[p].pc = "save_users"
    /\ IF saved
       THEN /\ users' = WithUser(calls[p].users, calls[p].email,
                                 calls[p].invite_code)
            /\ calls' = [calls EXCEPT ![p].pc = "use_invite_code"]
       ELSE /\ UNCHANGED users
            /\ calls' = RegisterReturns(p, FALSE, "Failed to save user data.")
    /\ UNCHANGED <<storeVars, filterVars, ret, blockedLog, invite_codes>>

\* use_invite_code(code, email): codes = load_invite_codes() and the test of
\* code in codes; register_user returns True whatever use_invite_code returns
UseInviteCodeLoad(p) ==
    /\ calls[p].pc = "use_invite_code"
    /\ calls' = IF calls[p].invite_code \in DOMAIN load_invite_codes
                THEN [calls EXCEPT ![p].pc = "save_invite_codes",
                                   ![p].codes = load_invite_codes]
                ELSE RegisterReturns(p, TRUE, "None")
    /\ UNCHANGED <<storeVars, filterVars, ret, blockedLog, accountVars>>

\* use_invite_code: the marking and save_invite_codes(codes); register_user
\* returns True
UseInviteCodeSave(p, saved) ==
    /\ calls[p].pc = "save_invite_codes"
    /\ invite_codes' = IF saved
                       THEN WithUsedCode(calls[p].codes, calls[p].invite_code,
                                         calls[p].email)
                       ELSE invite_codes
    /\ calls' = [RegisterReturns(p, TRUE, "None") EXCEPT ![p].marked = saved]
    /\ UNCHANGED <<storeVars, filterVars, ret, blockedLog, users>>

InitRegister ==
    /\ documents = {}
    /\ feedback = <<>>
    /\ feedbackLog = <<>>
    /\ adjustments = NoAdjustments
    /\ blockedFile = <<>>
    /\ blocked_phrases = NotLoaded
    /\ custom_rules = <<>>
    /\ ret = NoCall
    /\ blockedLog = <<>>
    /\ calls = [p \in Registrants |-> NotRegistering]
    /\ users = NoUsers
    /\ invite_codes = [c \in {"c1", "c2"} |-> NewCodeEntry]

NextRegister ==
    \/ \E p \in Registrants, email \in Emails, invite_code \in CodeInputs :
         RegisterLoadUsers(p, email, invite_code)
    \/ \E p \in Registrants : RegisterValidate(p)
    \/ \E p \in Registrants, saved \in BOOLEAN : RegisterSaveUsers(p, saved)
    \/ \E p \in Registrants : UseInviteCodeLoad(p)
    \/ \E p \in Registrants, saved \in BOOLEAN : UseInviteCodeSave(p, saved)

SpecRegister == InitRegister /\ [][NextRegister]_vars

-----------------------------------------------------------------------------
(* Claims about registration, checked under SpecRegister *)

\* no two distinct registered users hold the same invite code
OneRegistrationPerCode ==
    \A e1 \in DOMAIN users, e2 \in DOMAIN users :
        e1 # e2 => users[e1].invite_code # users[e2].invite_code

\* the code of every register_user call that returned True is marked used
SucceededCodeIsUsed ==
    \A p \in Registrants :
        (calls[p].pc = "done" /\ calls[p].success)
            => /\ calls[p].invite_code \in DOMAIN invite_codes
               /\ invite_codes[calls[p].invite_code].used

\* C30: an invite code admits at most one registration: under any
\* interleaving of register_user calls, failed saves included, no two
\* distinct registered users hold the same invite code, and a code is marked
\* used once a registration with it has succeeded.
C30_CodeAdmitsOneRegistration ==
    OneRegistrationPerCode /\ SucceededCodeIsUsed

\* register_user calls that run one after the other, with no failed save of
\* invite_codes.json, keep every code to one registration and mark it used
C30_SerialCallsWithoutFailedSave ==
    (\A p \in Registrants :
        /\ ~calls[p].overlapped
        /\ (calls[p].pc = "done" /\ calls[p].success) => calls[p].marked)
      => C30_CodeAdmitsOneRegistration

=============================================================================
